---- MODULE Spec2Model ----
(***************************************************************************)
(* ShortsGenerator: the job table (models.py), the five stage services     *)
(* (news, script, audio, image, video) that coordinate through its status  *)
(* columns, the orchestrator (pipeline_manager.py) and the caption writer  *)
(* (audio_service.generate_srt).                                           *)
(*                                                                         *)
(* A stage service is a process: it opens a session, runs its claim query  *)
(* (a plain SELECT, no lock), calls its external collaborator and commits  *)
(* or rolls back.  A commit is the UPDATE of the claimed row by primary    *)
(* key: it writes the columns the service assigned, whatever the row holds *)
(* by then.  Processes carry no identity of their own, so the running      *)
(* processes are a bag of process states.                                  *)
(***************************************************************************)
EXTENDS Integers, Sequences, FiniteSets, Bags, TLC

\* ---- bounds of the model
\* scene durations are the multiples of DurStep milliseconds up to MaxDur
\* steps; narration durations the multiples up to MaxAudio steps
DurStep == 830
MaxDur == 18
MaxAudio == 4
MaxJobs == 2
MaxProcs == 2
MaxUrl == 2
MaxBatch == 2
MaxPrompts == 5
MaxMarks == 2
MaxTicks == 2
MaxWordLen == 1

JobIds == 1..MaxJobs

\* a NULL column / a program that was not run
NULL == -1
\* the number of scenes of a job (range(4), "exactly 4 visual prompts")
NumScenes == 4

\* video_jobs: the table; procs: the running stage processes; orch: the
\* orchestrator; returncode: the exit status of the stage process that ended
\* last, or the HTTP status of the manual request answered last; marks: the
\* speech marks handed to generate_srt; srt: the file it wrote; clip: one call
\* of create_ken_burns and the frames of its clip; render: one run of
\* run_video_pipeline, thread by thread; image: one run of run_image_pipeline,
\* request by request; fallback: one call of generate_with_fallback and what
\* its caller makes of the answer; save: one run of save_news_to_db, item by
\* item
VARIABLES video_jobs, procs, orch, returncode, marks, srt, clip, render, image,
          fallback, save

captions == <<marks, srt>>

media == <<clip, render, image, fallback, save>>

vars ==
    <<video_jobs, procs, orch, returncode, marks, srt, clip, render, image,
      fallback, save>>

\* ------------------------------------------------------------------ rows
\* A row of video_jobs.  news_url 0 marks a row that does not exist (ids are
\* handed out in creation order, so id order is created_at order).  ai_script
\* is NULL or the number of visual_prompts of the stored script; image_paths
\* is NULL or the length n of the stored list, which is s1.jpg .. sn.jpg.
NoRow ==
    [news_url |-> 0, status |-> "absent", image_status |-> "absent",
     ai_script |-> NULL, audio_path |-> FALSE, image_paths |-> NULL]

\* VideoJob(... status="pending"): the column defaults
NewRow(url) ==
    [news_url |-> url, status |-> "pending", image_status |-> "pending",
     ai_script |-> NULL, audio_path |-> FALSE, image_paths |-> NULL]

Present == {j \in JobIds : video_jobs[j].news_url # 0}

\* ---------------------------------------------------------- claim queries
ScriptFilter(r) == r.status = "pending"

AudioFilter(r) == r.status = "scripted"

ImageFilter(r) == r.status = "scripted" /\ r.image_status = "pending"

\* the render claim without its image_status test
VideoFilterStatusOnly(r) == r.status = "voiced"

VideoFilter(r) == r.status = "voiced" /\ r.image_status = "completed"

\* the rows each claim query matches
ScriptMatches == {j \in Present : ScriptFilter(video_jobs[j])}

AudioMatches == {j \in Present : AudioFilter(video_jobs[j])}

ImageMatches == {j \in Present : ImageFilter(video_jobs[j])}

VideoMatches == {j \in Present : VideoFilter(video_jobs[j])}

\* .order_by(created_at.desc()).first(): the latest matching row
Latest(S) == CHOOSE j \in S : \A k \in S : k <= j

\* ------------------------------------------------------------- processes
\* A process of a stage service, as started: by the orchestrator ("orch")
\* or by hand ("hand").  job: the row it claimed; adds: the urls the news
\* session holds; prompts: len(prompts); rc: the exit status.
Started(kind, own) ==
    [kind |-> kind, own |-> own, pc |-> "start", job |-> 0, adds |-> <<>>,
     prompts |-> 0, rc |-> 0]

Running == BagToSet(procs)

Replaced(old, new) == (procs (-) SetToBag({old})) (+) SetToBag({new})

\* what the orchestrator's wait() finds of a child that ended: its exit
\* status (and, for the record, the job it finished its stage for)
Ended(r, rc, outcome) ==
    [Started(r.kind, r.own) EXCEPT !.pc = "exited", !.rc = rc,
                                   !.job = IF outcome = "done" THEN r.job ELSE 0]

\* the process r ends with exit status rc
AfterExit(r, rc, outcome) ==
    IF r.own = "orch" THEN Replaced(r, Ended(r, rc, outcome))
    ELSE procs (-) SetToBag({r})

OrchIdle == [pc |-> "idle", scripted |-> 0]

NotWritten == [written |-> FALSE, cues |-> <<>>]

\* no call of create_ken_burns yet (dur is num/den seconds; zoom in 1/10000)
NoClip ==
    [pc |-> "none", idx |-> 0, num |-> 0, den |-> 1, frames |-> 0, on |-> 0,
     n |-> 0, zoom |-> 0]

\* no run of run_video_pipeline yet
NoRender == [pc |-> "none"]

\* no run of run_image_pipeline yet
NoImage == [pc |-> "none"]

\* no run of save_news_to_db followed item by item yet
NoSave == [pc |-> "none"]

\* no call of generate_with_fallback yet
NoFallback == [pc |-> "none"]

Init ==
    /\ video_jobs = [j \in JobIds |-> NoRow]
    /\ procs = EmptyBag
    /\ orch = OrchIdle
    /\ returncode = 0
    /\ marks = <<>>
    /\ srt = NotWritten
    /\ clip = NoClip
    /\ render = NoRender
    /\ image = NoImage
    /\ fallback = NoFallback
    /\ save = NoSave

\* the process r goes on as new
Continue(r, new) ==
    /\ procs' = Replaced(r, new)
    /\ UNCHANGED returncode

\* the process r ends with exit status rc; outcome is "done" (the stage
\* committed), "failed" or "nojob" (the claim query found no row)
Exit(r, rc, outcome) ==
    /\ procs' = AfterExit(r, rc, outcome)
    /\ returncode' = rc

\* ------------------------------------------------------------ news stage
\* the lists the news model can answer with: up to MaxBatch items, each with
\* a url (1..MaxUrl) or without one (0)
Batches == UNION {[1..n -> 0..MaxUrl] : n \in 0..MaxBatch}

UrlPresent(url) == \E j \in Present : video_jobs[j].news_url = url

\* the loop of save_news_to_db: the urls it adds to the session.  autoflush
\* is off, so the exists query sees the committed rows only.
Queued(batch) == SelectSeq(batch, LAMBDA url : url # 0 /\ ~UrlPresent(url))

NoDuplicates(s) == \A a, b \in 1..Len(s) : s[a] = s[b] => a = b

\* a news_url column without its unique constraint
IntegrityErrorNever(adds) == FALSE

\* the unique constraint on news_url, as the INSERTs of a commit meet it
IntegrityError(adds) ==
    \/ ~NoDuplicates(adds)
    \/ \E a \in 1..Len(adds) : UrlPresent(adds[a])

Inserted(adds) ==
    LET n == Cardinality(Present)
    IN  [j \in JobIds |->
            IF j > n /\ j <= n + Len(adds) THEN NewRow(adds[j - n])
            ELSE video_jobs[j]]

\* fetched: the list fetch_india_positive_news returned, or what it raised
\* (SystemExit: the waterfall is exhausted, and the process ends with status
\* 1; Exception: caught by save_news_to_db, which returns normally)
Fetched == {[raised |-> "no", items |-> b] : b \in Batches}

FetchRaised == {[raised |-> e, items |-> <<>>] : e \in {"SystemExit", "Exception"}}

NewsFetch(r, fetched) ==
    /\ r.kind = "news" /\ r.pc = "start"
    /\ CASE fetched.raised = "SystemExit" -> Exit(r, 1, "failed")
         [] fetched.raised = "Exception" -> Exit(r, 0, "failed")
         [] OTHER -> Continue(r, [r EXCEPT !.pc = "adding",
                                           !.adds = Queued(fetched.items)])
    /\ UNCHANGED <<video_jobs, orch, captions, media>>

\* session.commit() of save_news_to_db: every INSERT in one transaction, or
\* the rollback of the except branch
NewsCommit(r) ==
    /\ r.kind = "news" /\ r.pc = "adding"
    /\ IF IntegrityError(r.adds)
       THEN /\ Exit(r, 0, "failed")
            /\ UNCHANGED video_jobs
       ELSE /\ Cardinality(Present) + Len(r.adds) <= MaxJobs
            /\ video_jobs' = Inserted(r.adds)
            /\ Exit(r, 0, "done")
    /\ UNCHANGED <<orch, captions, media>>

\* ------------------------------------------------------ manual ingestion
\* POST /api/jobs/manual.  A request is a record of procs of kind "api" from
\* its duplicate check to its response; ManualJobInput admits a well-formed
\* url only (1..MaxUrl).
Requested ==
    IF BagCardinality(procs) < MaxProcs THEN {Started("api", "hand")} ELSE {}

\* the response with the given HTTP status
Respond(r, status) ==
    /\ procs' = procs (-) SetToBag({r})
    /\ returncode' = status

\* inject_manual_job up to db.add: the duplicate check, answered 400 when
\* the url is in the table
ApiCheck(r, url) ==
    /\ r.kind = "api" /\ r.pc = "start"
    /\ IF UrlPresent(url)
       THEN Respond(r, 400)
       ELSE Continue(r, [r EXCEPT !.pc = "adding", !.adds = <<url>>])
    /\ UNCHANGED <<video_jobs, orch, captions, media>>

\* db.commit(): 201 with the new row, or the rollback and 500 when the
\* INSERT raises
ApiCommit(r) ==
    /\ r.kind = "api" /\ r.pc = "adding"
    /\ IF IntegrityError(r.adds)
       THEN /\ Respond(r, 500)
            /\ UNCHANGED video_jobs
       ELSE /\ Cardinality(Present) + Len(r.adds) <= MaxJobs
            /\ video_jobs' = Inserted(r.adds)
            /\ Respond(r, 201)
    /\ UNCHANGED <<orch, captions, media>>

\* ---------------------------------------------------------- script stage
\* the answers of the model waterfall to the script prompt: a JSON object
\* with n visual_prompts ("json"), text that is not JSON ("text"), JSON that
\* is not an object ("array"), no answer from any model ("exhausted"), or
\* an error other than 429/503 ("error")
LlmReplies ==
    {[kind |-> "json", prompts |-> n] : n \in 0..MaxPrompts}
        \cup {[kind |-> k, prompts |-> 0] : k \in {"text", "array", "exhausted", "error"}}

\* the script data accepted without the count of its visual_prompts
ScriptResultAnyCount(reply) ==
    CASE reply.kind = "exhausted" -> "SystemExit"
      [] reply.kind = "error" -> "Exception"
      [] reply.kind = "text" -> "SystemExit"
      [] reply.kind = "array" -> "Exception"
      [] OTHER -> "data"

\* generate_script_from_news: the script data, or the exception it raises
\* (json.loads raises JSONDecodeError, turned into SystemExit; data.get on a
\* list raises AttributeError, which the except clause does not name)
ScriptResult(reply) ==
    CASE reply.kind = "exhausted" -> "SystemExit"
      [] reply.kind = "error" -> "Exception"
      [] reply.kind = "text" -> "SystemExit"
      [] reply.kind = "array" -> "Exception"
      [] OTHER -> IF reply.prompts # NumScenes THEN "SystemExit" ELSE "data"

ScriptUpdate(row, prompts) ==
    [row EXCEPT !.ai_script = prompts, !.status = "scripted"]

ScriptClaim(r) ==
    /\ r.kind = "script" /\ r.pc = "start"
    /\ IF ScriptMatches = {}
       THEN Exit(r, 0, "nojob")
       ELSE Continue(r, [r EXCEPT !.pc = "claimed", !.job = Latest(ScriptMatches)])
    /\ UNCHANGED <<video_jobs, orch, captions, media>>

ScriptFinish(r, reply) ==
    /\ r.kind = "script" /\ r.pc = "claimed"
    /\ LET res == ScriptResult(reply)
       IN  IF res = "data"
           THEN /\ video_jobs' = [video_jobs EXCEPT
                        ![r.job] = ScriptUpdate(@, reply.prompts)]
                /\ Exit(r, 0, "done")
           ELSE /\ UNCHANGED video_jobs
                /\ Exit(r, IF res = "SystemExit" THEN 1 ELSE 0, "failed")
    /\ UNCHANGED <<orch, captions, media>>

\* ----------------------------------------------------------- audio stage
\* the audio commit without its status assignment
AudioUpdatePathOnly(row) == [row EXCEPT !.audio_path = TRUE]

\* the audio commit as an UPDATE of every column, the image columns with the
\* values they had when the row was loaded
AudioUpdateWholeRow(row) ==
    [row EXCEPT !.audio_path = TRUE, !.status = "voiced",
                !.image_status = "pending", !.image_paths = NULL]

AudioUpdate(row) == [row EXCEPT !.audio_path = TRUE, !.status = "voiced"]

AudioClaim(r) ==
    /\ r.kind = "audio" /\ r.pc = "start"
    /\ IF AudioMatches = {}
       THEN Exit(r, 0, "nojob")
       ELSE \E j \in AudioMatches : Continue(r, [r EXCEPT !.pc = "claimed", !.job = j])
    /\ UNCHANGED <<video_jobs, orch, captions, media>>

\* the audio commit as an UPDATE of every row the claim query matches
AudioFinishAll(r, ok) ==
    /\ r.kind = "audio" /\ r.pc = "claimed"
    /\ IF ok
       THEN /\ video_jobs' = [j \in JobIds |->
                    IF j = r.job \/ j \in AudioMatches
                    THEN AudioUpdate(video_jobs[j]) ELSE video_jobs[j]]
            /\ Exit(r, 0, "done")
       ELSE /\ UNCHANGED video_jobs
            /\ Exit(r, 0, "failed")
    /\ UNCHANGED <<orch, captions, media>>

\* polly and generate_srt succeed (ok) or raise
AudioFinish(r, ok) ==
    /\ r.kind = "audio" /\ r.pc = "claimed"
    /\ IF ok
       THEN /\ video_jobs' = [video_jobs EXCEPT ![r.job] = AudioUpdate(@)]
            /\ Exit(r, 0, "done")
       ELSE /\ UNCHANGED video_jobs
            /\ Exit(r, 0, "failed")
    /\ UNCHANGED <<orch, captions, media>>

\* ----------------------------------------------------------- image stage
ImageUpdate(row, saved) ==
    [row EXCEPT !.image_paths = saved, !.image_status = "completed"]

\* the commit test as "some image was saved"
ImageCompleteAny(saved, prompts) == saved >= 1

\* if len(saved_paths) == len(prompts)
ImageComplete(saved, prompts) == saved = prompts

ImageClaim(r) ==
    /\ r.kind = "image" /\ r.pc = "start"
    /\ IF ImageMatches = {}
       THEN Exit(r, 0, "nojob")
       ELSE \E j \in ImageMatches :
                Continue(r, [r EXCEPT !.pc = "claimed", !.job = j,
                                      !.prompts = video_jobs[j].ai_script])
    /\ UNCHANGED <<video_jobs, orch, captions, media>>

\* saved: the images generate_image produced before the first None (the loop
\* breaks there); raised: generate_image raised (no API key)
ImageFinish(r, saved, raised) ==
    /\ r.kind = "image" /\ r.pc = "claimed"
    /\ saved \in 0..r.prompts
    /\ IF raised
       THEN /\ UNCHANGED video_jobs
            /\ Exit(r, 1, "failed")
       ELSE IF ImageComplete(saved, r.prompts)
       THEN /\ video_jobs' = [video_jobs EXCEPT ![r.job] = ImageUpdate(@, saved)]
            /\ Exit(r, 0, "done")
       ELSE /\ UNCHANGED video_jobs
            /\ Exit(r, 0, "failed")
    /\ UNCHANGED <<orch, captions, media>>

\* ----------------------------------------------------------- video stage
VideoUpdate(row) == [row EXCEPT !.status = "completed"]

ExitCodes == {0, 1}

VideoClaim(r) ==
    /\ r.kind = "video" /\ r.pc = "start"
    /\ IF VideoMatches = {}
       THEN Exit(r, 0, "nojob")
       ELSE \E j \in VideoMatches : Continue(r, [r EXCEPT !.pc = "claimed", !.job = j])
    /\ UNCHANGED <<video_jobs, orch, captions, media>>

\* what the render did between its claim query and its commit, none of it
\* on the table.  probe: the exit status of ffprobe (get_audio_duration,
\* check=True); rcs[i]: the exit status of the ffmpeg of scene i-1, NULL
\* when ffprobe failed (create_ken_burns, check=True; the with block waits
\* for the four tasks and f.result() re-raises a task's CalledProcessError);
\* rc: the exit status of the final ffmpeg, NULL when it was not started.
Rendered(probe, rcs, rc) ==
    LET scenes == IF probe = 0 THEN rcs ELSE [i \in 1..NumScenes |-> NULL]
        clips == \A i \in 1..NumScenes : scenes[i] = 0
    IN  [ffprobe |-> probe, scenes |-> scenes, ffmpeg |-> IF clips THEN rc ELSE NULL]

\* the render with a final ffmpeg run whose exit status is not checked
VideoFinishUnchecked(r, probe, rcs, rc) ==
    /\ r.kind = "video" /\ r.pc = "claimed"
    /\ IF Rendered(probe, rcs, rc).ffmpeg # NULL
       THEN /\ video_jobs' = [video_jobs EXCEPT ![r.job] = VideoUpdate(@)]
            /\ Exit(r, 0, "done")
       ELSE /\ UNCHANGED video_jobs
            /\ Exit(r, 1, "failed")
    /\ UNCHANGED <<orch, captions, media>>

\* run_video_pipeline after its claim: ffprobe, the four scenes, the final
\* ffmpeg (check=True), then job.status = "completed" and the commit; the
\* except branch rolls back and calls sys.exit(1)
VideoFinish(r, probe, rcs, rc) ==
    /\ r.kind = "video" /\ r.pc = "claimed"
    /\ IF Rendered(probe, rcs, rc).ffmpeg = 0
       THEN /\ video_jobs' = [video_jobs EXCEPT ![r.job] = VideoUpdate(@)]
            /\ Exit(r, 0, "done")
       ELSE /\ UNCHANGED video_jobs
            /\ Exit(r, 1, "failed")
    /\ UNCHANGED <<orch, captions, media>>

\* ---------------------------------------------- stages run by hand
Stages == {"news", "script", "audio", "image", "video"}

\* python <stage>_service.py, outside the orchestrator: the processes that
\* can be started now.  A process started by hand enters procs with its
\* first step, the fetch or the claim query (nothing of it is visible before).
Invoked ==
    IF BagCardinality(procs) < MaxProcs
    THEN {Started(kind, "hand") : kind \in Stages}
    ELSE {}

\* the machine stops: every process ends, open transactions are discarded
Crash ==
    /\ procs' = EmptyBag
    /\ orch' = OrchIdle
    /\ UNCHANGED returncode
    /\ UNCHANGED <<video_jobs, captions, media>>

\* ---------------------------------------------------------- orchestrator
\* the children of the orchestrator that have ended
Waited(kind) == {r \in Running : r.own = "orch" /\ r.kind = kind /\ r.pc = "exited"}

\* main(): run_sequential("news_service.py") starts
OrchStart ==
    /\ orch.pc \in {"idle", "ok", "failed"}
    /\ BagCardinality(procs) < MaxProcs
    /\ orch' = [OrchIdle EXCEPT !.pc = "news"]
    /\ procs' = procs (+) SetToBag({Started("news", "orch")})
    /\ UNCHANGED returncode
    /\ UNCHANGED <<video_jobs, captions, media>>

\* run_sequential returns: True only on exit status 0
RunOk(r) == r.rc = 0

OrchNewsDone ==
    /\ orch.pc = "news"
    /\ \E r \in Waited("news") :
        IF RunOk(r)
        THEN /\ orch' = [orch EXCEPT !.pc = "script"]
             /\ procs' = Replaced(r, Started("script", "orch"))
        ELSE /\ orch' = [OrchIdle EXCEPT !.pc = "failed"]
             /\ procs' = procs (-) SetToBag({r})
    /\ UNCHANGED returncode
    /\ UNCHANGED <<video_jobs, captions, media>>

\* after script_service.py: the two Popen calls
OrchScriptDone ==
    /\ orch.pc = "script"
    /\ \E r \in Waited("script") :
        IF RunOk(r)
        THEN /\ BagCardinality(procs) < MaxProcs
             /\ orch' = [orch EXCEPT !.pc = "fork", !.scripted = r.job]
             /\ procs' = (procs (-) SetToBag({r}))
                            (+) SetToBag({Started("audio", "orch"),
                                          Started("image", "orch")})
        ELSE /\ orch' = [OrchIdle EXCEPT !.pc = "failed"]
             /\ procs' = procs (-) SetToBag({r})
    /\ UNCHANGED returncode
    /\ UNCHANGED <<video_jobs, captions, media>>

\* the join with the check of proc_image.returncode left out
OrchJoinAudioOnly ==
    /\ orch.pc = "fork"
    /\ \E a \in Waited("audio"), i \in Waited("image") :
        /\ IF a.rc # 0
           THEN /\ orch' = [orch EXCEPT !.pc = "failed"]
                /\ procs' = procs (-) SetToBag({a, i})
           ELSE /\ orch' = [orch EXCEPT !.pc = "video"]
                /\ procs' = (procs (-) SetToBag({a, i}))
                                (+) SetToBag({Started("video", "orch")})
    /\ UNCHANGED returncode
    /\ UNCHANGED <<video_jobs, captions, media>>

\* proc_audio.wait(); proc_image.wait(); the returncode checks
OrchJoin ==
    /\ orch.pc = "fork"
    /\ \E a \in Waited("audio"), i \in Waited("image") :
        /\ IF a.rc # 0 \/ i.rc # 0
           THEN /\ orch' = [orch EXCEPT !.pc = "failed"]
                /\ procs' = procs (-) SetToBag({a, i})
           ELSE /\ orch' = [orch EXCEPT !.pc = "video"]
                /\ procs' = (procs (-) SetToBag({a, i}))
                                (+) SetToBag({Started("video", "orch")})
    /\ UNCHANGED returncode
    /\ UNCHANGED <<video_jobs, captions, media>>

OrchVideoDone ==
    /\ orch.pc = "video"
    /\ \E r \in Waited("video") :
        /\ orch' = [orch EXCEPT !.pc = IF RunOk(r) THEN "ok" ELSE "failed"]
        /\ procs' = procs (-) SetToBag({r})
    /\ UNCHANGED returncode
    /\ UNCHANGED <<video_jobs, captions, media>>

\* ---------------------------------------------------------- generate_srt
\* A string is the sequence of its characters.
DigitChars == <<"0", "1", "2", "3", "4", "5", "6", "7", "8", "9">>

Pad(n, width) == [i \in 1..width |-> DigitChars[((n \div (10 ^ (width - i))) % 10) + 1]]

RECURSIVE Decimal(_)
Decimal(n) == IF n < 10 THEN <<DigitChars[n + 1]>>
              ELSE Decimal(n \div 10) \o <<DigitChars[(n % 10) + 1]>>

\* str(datetime.timedelta(milliseconds=ms)), for ms below one day:
\* H:MM:SS, followed by .ffffff only when the microseconds are not 0
TimedeltaStr(ms) ==
    LET secs == ms \div 1000
        micros == (ms % 1000) * 1000
        hms == Decimal(secs \div 3600) \o <<":">> \o Pad((secs % 3600) \div 60, 2)
                    \o <<":">> \o Pad(secs % 60, 2)
    IN  IF micros = 0 THEN hms ELSE hms \o <<".">> \o Pad(micros, 6)

\* s[:-3]
DropLast3(s) == SubSeq(s, 1, Len(s) - 3)

\* s.replace('.', ',')
ReplaceDot(s) == [i \in 1..Len(s) |-> IF s[i] = "." THEN "," ELSE s[i]]

\* start_srt / end_srt: the cut string, with "0" put in front unless it
\* starts with "0"
SrtTime(ms) ==
    LET t == ReplaceDot(DropLast3(TimedeltaStr(ms)))
    IN  IF Len(t) > 0 /\ t[1] = "0" THEN t ELSE <<"0">> \o t

\* the characters of the word values tried: a lower-case letter, an
\* upper-case letter, an apostrophe
Chars == {"a", "B", "'"}

\* one character of str.upper()
UpperChar(c) == IF c = "a" THEN "A" ELSE c

Upper(value) == [i \in 1..Len(value) |-> UpperChar(value[i])]

\* the list comprehension: the marks of type 'word', in order
WordMarks(speech_marks_data) == SelectSeq(speech_marks_data, LAMBDA m : m.type = "word")

\* generate_srt writing a cue for every word but the last
generate_srt_short(speech_marks_data) ==
    LET lines == WordMarks(speech_marks_data)
    IN  [written |-> TRUE,
         cues |-> [i \in 1..(Len(lines) - 1) |->
            [number |-> i,
             start |-> <<"0">> \o SrtTime(lines[i].time),
             end |-> <<"0">> \o SrtTime(lines[i + 1].time),
             text |-> Upper(lines[i].value)]]]

\* generate_srt: the cue blocks written to srt_path, one per write call:
\* f"{i+1}\n0{start_srt} --> 0{end_srt}\n{word['value'].upper()}\n\n"
generate_srt(speech_marks_data) ==
    LET lines == WordMarks(speech_marks_data)
    IN  [written |-> TRUE,
         cues |-> [i \in 1..Len(lines) |->
            [number |-> i,
             start |-> <<"0">> \o SrtTime(lines[i].time),
             end |-> <<"0">> \o SrtTime(IF i + 1 <= Len(lines) THEN lines[i + 1].time
                                         ELSE lines[i].time + 400),
             text |-> Upper(lines[i].value)]]]

\* the speech marks tried: each a word or a sentence mark, at a multiple of
\* half a second, with a value of up to MaxWordLen characters
MarkTimes == {k * 500 : k \in 0..MaxTicks}

MarkValues == UNION {[1..n -> Chars] : n \in 1..MaxWordLen}

SpeechMarks == [type : {"word", "sentence"}, time : MarkTimes, value : MarkValues]

GenerateSrt ==
    /\ ~srt.written
    /\ srt' = generate_srt(marks)
    /\ UNCHANGED <<video_jobs, procs, orch, returncode, marks, media>>

InitSrt ==
    /\ video_jobs = [j \in JobIds |-> NoRow]
    /\ procs = EmptyBag
    /\ orch = OrchIdle
    /\ returncode = 0
    /\ marks \in UNION {[1..n -> SpeechMarks] : n \in 0..MaxMarks}
    /\ srt = NotWritten
    /\ clip = NoClip
    /\ render = NoRender
    /\ image = NoImage
    /\ fallback = NoFallback
    /\ save = NoSave

SpecSrt == InitSrt /\ [][GenerateSrt]_vars

\* --------------------------------------------------------- create_ken_burns
\* a duration is the fraction num/den of a second; zoom factors are counted in
\* ten-thousandths, so that 0.0015 is ZoomStep and 1.5 is ZoomCap
FramesPerSecond == 24
ZoomStep == 15
ZoomCap == 15000
ZoomFloor == 10000

Min(a, b) == IF a <= b THEN a ELSE b
Max(a, b) == IF a >= b THEN a ELSE b

\* frames = int(dur * 24): the product cut off toward zero
Frames(num, den) == (num * FramesPerSecond) \div den

\* the zoom expression without its limits
ZoomExprUnlimited(idx, zoom, on) ==
    IF idx % 2 = 0 THEN zoom + ZoomStep ELSE ZoomCap - ZoomStep * on

\* the zoom expression handed to zoompan, evaluated for one frame: zoom is
\* the value of the frame before, on the number of the frame
ZoomExpr(idx, zoom, on) ==
    IF idx % 2 = 0
    THEN Min(zoom + ZoomStep, ZoomCap)
    ELSE Max(ZoomCap - ZoomStep * on, ZoomFloor)

SceneDurations == {k * DurStep : k \in 0..MaxDur}

\* a call create_ken_burns(img, dur, idx, tmp) with dur = num/den seconds;
\* zoompan starts with zoom 1 and numbers its frames from first
Called(num, den, idx, first) ==
    [pc |-> "called", idx |-> idx, num |-> num, den |-> den, frames |-> 0,
     on |-> first, n |-> 0, zoom |-> ZoomFloor]

\* create_ken_burns up to the start of ffmpeg
create_ken_burns ==
    /\ clip.pc = "called"
    /\ clip' = [clip EXCEPT !.pc = "zoompan",
                            !.frames = Frames(clip.num, clip.den)]
    /\ UNCHANGED <<video_jobs, procs, orch, returncode, captions, render, image, fallback, save>>

\* zoompan puts out the next of the d = frames frames of the clip
ZoomFrame ==
    /\ clip.pc = "zoompan"
    /\ clip.n < clip.frames
    /\ clip' = [clip EXCEPT !.zoom = ZoomExpr(clip.idx, clip.zoom, clip.on),
                            !.on = clip.on + 1,
                            !.n = clip.n + 1]
    /\ UNCHANGED <<video_jobs, procs, orch, returncode, captions, render, image, fallback, save>>

InitClip ==
    /\ video_jobs = [j \in JobIds |-> NoRow]
    /\ procs = EmptyBag
    /\ orch = OrchIdle
    /\ returncode = 0
    /\ marks = <<>>
    /\ srt = NotWritten
    /\ clip \in {Called(d, 1000, idx, first) :
                    d \in SceneDurations, idx \in 0..(NumScenes - 1),
                    first \in 0..1}
    /\ render = NoRender
    /\ image = NoImage
    /\ fallback = NoFallback
    /\ save = NoSave

SpecClip == InitClip /\ [][create_ken_burns \/ ZoomFrame]_vars

\* ------------------------------------------- run_video_pipeline by threads
\* One run of run_video_pipeline, step by step.  futs[f] is the scene index
\* the dict futs gives for future f (futures are numbered in the order of
\* their submission); tasks[f] is the call of create_ken_burns behind future
\* f; T is the length of the audio file in milliseconds; collected lists the futures in the order as_completed handed them
\* out; clips[i + 1] is clips[i] of the code, NULL for None, else the index k
\* of the file scene_k.mp4; manifest lists the files named in concat.txt;
\* temp is the directory assets/temp: whether it exists, the scenes k whose
\* scene_k.mp4 is in it, and whether concat.txt is in it.
AudioDurations == {k * DurStep : k \in 0..MaxAudio}

Absent == [exists |-> FALSE, clips |-> {}, concat |-> FALSE]

Empty == [exists |-> TRUE, clips |-> {}, concat |-> FALSE]

\* what a render that was killed can have left in assets/temp
Leftovers == {Absent, Empty, [Empty EXCEPT !.clips = {0, 1}],
              [exists |-> TRUE, clips |-> 0..(NumScenes - 1), concat |-> TRUE]}

RenderStart(temp) ==
    [pc |-> "start", temp |-> temp, job |-> 0, T |-> NULL,
     sc_dur |-> [num |-> 0, den |-> 1],
     futs |-> <<>>, tasks |-> <<>>, collected |-> <<>>,
     clips |-> [i \in 1..NumScenes |-> NULL], manifest |-> <<>>, final |-> NULL]

\* a row that audio_service and image_service have both finished
ReadyRow ==
    [news_url |-> 1, status |-> "voiced", image_status |-> "completed",
     ai_script |-> NumScenes, audio_path |-> TRUE, image_paths |-> NumScenes]

InitRender ==
    /\ video_jobs \in {[j \in JobIds |-> IF j = 1 THEN row ELSE NoRow] :
                          row \in {ReadyRow, [ReadyRow EXCEPT !.status = "scripted",
                                                              !.audio_path = FALSE]}}
    /\ procs = EmptyBag
    /\ orch = OrchIdle
    /\ returncode = 0
    /\ marks = <<>>
    /\ srt = NotWritten
    /\ clip = NoClip
    /\ render \in {RenderStart(temp) : temp \in Leftovers}
    /\ image = NoImage
    /\ fallback = NoFallback
    /\ save = NoSave

\* the process ends and leaves assets/temp behind
RenderExitKeep(run, rc) ==
    /\ render' = [run EXCEPT !.pc = "exited"]
    /\ returncode' = rc

\* the process ends: the except branch (rollback, sys.exit(1)) or the
\* return, and the finally branch, which removes assets/temp
RenderExit(run, rc) ==
    /\ render' = [run EXCEPT !.pc = "exited", !.temp = Absent]
    /\ returncode' = rc

\* the claim query, then rmtree and makedirs of assets/temp (lines 45-53)
RenderClaim ==
    /\ render.pc = "start"
    /\ IF VideoMatches = {}
       THEN RenderExit(render, 0)
       ELSE /\ \E j \in VideoMatches :
                   render' = [render EXCEPT !.pc = "probe", !.job = j,
                                            !.temp = Empty]
            /\ UNCHANGED returncode
    /\ UNCHANGED <<video_jobs, procs, orch, captions, clip, image, fallback, save>>

\* sc_dur = get_audio_duration(job.audio_path) / 4, for an audio file of T
\* milliseconds; ffprobe runs with check=True
RenderProbe(T, rc) ==
    /\ render.pc = "probe"
    /\ IF rc = 0
       THEN /\ render' = [render EXCEPT !.pc = "submit", !.T = T,
                                        !.sc_dur = [num |-> T, den |-> 4 * 1000]]
            /\ UNCHANGED returncode
       ELSE RenderExit(render, 1)
    /\ UNCHANGED <<video_jobs, procs, orch, captions, clip, image, fallback, save>>

\* a submit that waits for the tasks submitted before it
CanSubmitInTurn == \A f \in DOMAIN render.tasks : render.tasks[f].state # "running"

\* exe.submit returns at once: the pool has a worker for each of the four
CanSubmit == TRUE

\* the next exe.submit(create_ken_burns, job.image_paths[i], sc_dur, i, temp_dir)
\* of the dict comprehension; after the fourth the as_completed loop begins
RenderSubmit ==
    /\ render.pc = "submit"
    /\ CanSubmit
    /\ LET i == Len(render.futs)
           task == [state |-> "running", idx |-> i, dur |-> render.sc_dur,
                    frames |-> 0, out |-> NULL]
       IN render' = [render EXCEPT
              !.futs = Append(@, i),
              !.tasks = Append(@, task),
              !.pc = IF i + 1 = NumScenes THEN "collect" ELSE "submit"]
    /\ UNCHANGED <<video_jobs, procs, orch, returncode, captions, clip, image, fallback, save>>

\* create_ken_burns in its worker thread: the frame count, the ffmpeg run
\* (check=True) and the returned path scene_<idx>.mp4
TaskEnd(f, rc) ==
    /\ render.pc \in {"submit", "collect", "shutdown"}
    /\ f \in DOMAIN render.tasks
    /\ render.tasks[f].state = "running"
    /\ LET t == render.tasks[f]
       IN render' = [render EXCEPT !.tasks[f] =
              [t EXCEPT !.state = IF rc = 0 THEN "done" ELSE "raised",
                        !.frames = Frames(t.dur.num, t.dur.den),
                        !.out = IF rc = 0 THEN t.idx ELSE NULL],
              !.temp.clips = IF rc = 0 THEN @ \cup {t.idx} ELSE @]
    /\ UNCHANGED <<video_jobs, procs, orch, returncode, captions, clip, image, fallback, save>>

\* clips.append(f.result()): the results in the order they arrive
PlacedOnArrival(clips, f, out) ==
    [clips EXCEPT ![Len(render.collected) + 1] = out]

\* clips[futs[f]] = f.result()
Placed(clips, f, out) == [clips EXCEPT ![render.futs[f] + 1] = out]

\* one turn of the loop over as_completed(futs): a finished future that was
\* not handed out yet.  f.result() re-raises the error of a failed task; the
\* with block then waits for the tasks still running (RenderShutdown)
RenderCollect(f) ==
    /\ render.pc = "collect"
    /\ f \in DOMAIN render.tasks
    /\ \A k \in DOMAIN render.collected : render.collected[k] # f
    /\ render.tasks[f].state # "running"
    /\ IF render.tasks[f].state = "done"
       THEN render' = [render EXCEPT
                !.clips = Placed(@, f, render.tasks[f].out),
                !.collected = Append(@, f),
                !.pc = IF Len(render.collected) + 1 = NumScenes
                       THEN "concat" ELSE "collect"]
       ELSE render' = [render EXCEPT !.pc = "shutdown"]
    /\ UNCHANGED <<video_jobs, procs, orch, returncode, captions, clip, image, fallback, save>>

\* the executor's shutdown(wait=True) at the end of the with block after an
\* error, then the except branch
RenderShutdown ==
    /\ render.pc = "shutdown"
    /\ \A f \in DOMAIN render.tasks : render.tasks[f].state # "running"
    /\ RenderExit(render, 1)
    /\ UNCHANGED <<video_jobs, procs, orch, captions, clip, image, fallback, save>>

\* concat.txt: one line per element of clips, in list order (lines 69-74)
RenderConcat ==
    /\ render.pc = "concat"
    /\ render' = [render EXCEPT !.pc = "final", !.manifest = render.clips,
                                 !.temp.concat = TRUE]
    /\ UNCHANGED <<video_jobs, procs, orch, returncode, captions, clip, image, fallback, save>>

\* the final ffmpeg (check=True), then job.status = "completed" and the
\* commit (lines 106-119)
RenderFinal(rc) ==
    /\ render.pc = "final"
    /\ RenderExit([render EXCEPT !.final = rc], IF rc = 0 THEN 0 ELSE 1)
    /\ IF rc = 0
       THEN video_jobs' = [video_jobs EXCEPT ![render.job] = VideoUpdate(@)]
       ELSE UNCHANGED video_jobs
    /\ UNCHANGED <<procs, orch, captions, clip, image, fallback, save>>

NextRender ==
    \/ RenderClaim
    \/ \E T \in AudioDurations, rc \in ExitCodes : RenderProbe(T, rc)
    \/ RenderSubmit
    \/ \E f \in 1..NumScenes, rc \in ExitCodes : TaskEnd(f, rc)
    \/ \E f \in 1..NumScenes : RenderCollect(f)
    \/ RenderShutdown
    \/ RenderConcat
    \/ \E rc \in ExitCodes : RenderFinal(rc)

SpecRender == InitRender /\ [][NextRender]_vars

\* ------------------------------------------ run_image_pipeline by requests
\* One run of run_image_pipeline, request by request.  A response of the
\* image API is its HTTP status (NULL: no response, urlopen raised a
\* connection error or timed out) and the length of its body in bytes.
MinImageBytes == 10000
MaxAttempts == 3

Responses ==
    {[status |-> 200, size |-> n] : n \in {MinImageBytes - 1, MinImageBytes}}
        \cup {[status |-> st, size |-> 0] : st \in {204, 401, 503, NULL}}

\* the turn without the test of the body's length
AttemptAnySize(resp) ==
    IF resp.status = 200 THEN "path"
    ELSE IF resp.status = 401 THEN "None"
    ELSE "again"

\* what one turn of the loop of generate_image does with the response:
\* "path" (the body is written and the path returned), "None" (returned at
\* once), or "again" (the next turn, if there is one)
Attempt(resp) ==
    IF resp.status = 200 /\ resp.size >= MinImageBytes THEN "path"
    ELSE IF resp.status = 401 THEN "None"
    ELSE "again"

\* a call generate_image(prompts[i], s<i+1>.jpg): the responses it has met
\* and what it returned ("" while it is at work)
NewCall == [responses |-> <<>>, result |-> ""]

\* key: POLLINATIONS_API_KEY is set; i: the index of the prompt at work;
\* saved: len(saved_paths); files[k]: the body in s<k>.jpg, as the number of
\* the attempt that fetched it, NULL when the file does not exist
ImageStart(key) ==
    [pc |-> "start", key |-> key, job |-> 0, prompts |-> 0, i |-> 0,
     saved |-> 0, call |-> NewCall, files |-> [k \in 1..NumScenes |-> NULL]]

\* a row that script_service has finished
ScriptedRow ==
    [news_url |-> 1, status |-> "scripted", image_status |-> "pending",
     ai_script |-> NumScenes, audio_path |-> FALSE, image_paths |-> NULL]

InitImage ==
    /\ video_jobs \in {[j \in JobIds |-> IF j = 1 THEN row ELSE NoRow] :
                          row \in {ScriptedRow, NewRow(1)}}
    /\ procs = EmptyBag
    /\ orch = OrchIdle
    /\ returncode = 0
    /\ marks = <<>>
    /\ srt = NotWritten
    /\ clip = NoClip
    /\ render = NoRender
    /\ image \in {ImageStart(key) : key \in BOOLEAN}
    /\ fallback = NoFallback
    /\ save = NoSave

\* the process ends with exit status rc
ImgExit(rc) ==
    /\ image' = [image EXCEPT !.pc = "exited"]
    /\ returncode' = rc

\* the claim query and the first call of generate_image, which raises
\* ValueError at once when the key is missing (no except branch: the
\* process ends with a traceback)
ImgClaim ==
    /\ image.pc = "start"
    /\ IF ImageMatches = {}
       THEN ImgExit(0)
       ELSE \E j \in ImageMatches :
              /\ image' = [image EXCEPT
                     !.pc = IF image.key THEN "request" ELSE "exited",
                     !.job = j, !.prompts = video_jobs[j].ai_script]
              /\ returncode' = IF image.key THEN returncode ELSE 1
    /\ UNCHANGED <<video_jobs, procs, orch, captions, clip, render, fallback, save>>

\* what generate_image returns after this response, "" when it goes on
Returns(call, resp) ==
    IF Attempt(resp) = "again"
    THEN IF Len(call.responses) + 1 = MaxAttempts THEN "None" ELSE ""
    ELSE Attempt(resp)

\* one turn of the loop of generate_image: the request and its response
ImgRequest(resp) ==
    /\ image.pc = "request"
    /\ LET ret == Returns(image.call, resp)
           n == Len(image.call.responses) + 1
       IN image' = [image EXCEPT
              !.call = [responses |-> Append(image.call.responses, resp),
                        result |-> ret],
              !.files[image.i + 1] = IF ret = "path" THEN n ELSE @,
              !.pc = IF ret = "" THEN "request" ELSE "returned"]
    /\ UNCHANGED <<video_jobs, procs, orch, returncode, captions, clip, render,
                   fallback, save>>

\* the loop of run_image_pipeline after generate_image has returned: the
\* path is appended and the next prompt taken, or the loop is left
ImgNext ==
    /\ image.pc = "returned"
    /\ IF image.call.result = "path"
       THEN image' = [image EXCEPT
                !.saved = @ + 1, !.i = @ + 1, !.call = NewCall,
                !.pc = IF image.i + 1 = image.prompts THEN "commit" ELSE "request"]
       ELSE image' = [image EXCEPT !.pc = "commit"]
    /\ UNCHANGED <<video_jobs, procs, orch, returncode, captions, clip, render,
                   fallback, save>>

\* the final update: the commit when every prompt has its image, else the
\* rollback; the process returns either way
ImgFinish ==
    /\ image.pc = "commit"
    /\ IF ImageComplete(image.saved, image.prompts)
       THEN video_jobs' = [video_jobs EXCEPT ![image.job] = ImageUpdate(@, image.saved)]
       ELSE UNCHANGED video_jobs
    /\ ImgExit(0)
    /\ UNCHANGED <<procs, orch, captions, clip, render, fallback, save>>

NextImage ==
    \/ ImgClaim
    \/ \E resp \in Responses : ImgRequest(resp)
    \/ ImgNext
    \/ ImgFinish

SpecImage == InitImage /\ [][NextImage]_vars

\* ------------------------------------------- generate_with_fallback by calls
\* One run of run_script_pipeline, call by call.  The models of
\* MODEL_WATERFALL are numbered in list order; the list has 3 models in
\* script_service and news_service and 4 in script_service_hindi.
WaterfallLengths == {3, 4}

\* what client.models.generate_content does: a response (an answer of the
\* kinds of LlmReplies), an APIError with its code, or another exception
CallOutcomes ==
    {[kind |-> k, code |-> 200, prompts |-> 0] : k \in {"text", "array"}}
        \cup {[kind |-> "json", code |-> 200, prompts |-> n] : n \in 0..MaxPrompts}
        \cup {[kind |-> "APIError", code |-> c, prompts |-> 0] : c \in {429, 503, 400}}
        \cup {[kind |-> "Exception", code |-> 0, prompts |-> 0]}

\* every APIError taken for a reason to try the next model
TransientAny(out) == out.kind = "APIError"

\* if e.code in [429, 503]: continue
Transient(out) == out.kind = "APIError" /\ out.code \in {429, 503}

\* n: len(MODEL_WATERFALL); pos: the models the for loop has passed;
\* calls: the requests made, each with its model and its outcome; result: ""
\* while the loop runs, then "response", "raised" or "SystemExit"
FallbackStart(n) ==
    [pc |-> "start", n |-> n, job |-> 0, pos |-> 0, calls |-> <<>>,
     result |-> ""]

InitFallback ==
    /\ video_jobs \in {[j \in JobIds |-> IF j = 1 THEN row ELSE NoRow] :
                          row \in {NewRow(1), ScriptedRow}}
    /\ procs = EmptyBag
    /\ orch = OrchIdle
    /\ returncode = 0
    /\ marks = <<>>
    /\ srt = NotWritten
    /\ clip = NoClip
    /\ render = NoRender
    /\ image = NoImage
    /\ fallback \in {FallbackStart(n) : n \in WaterfallLengths}
    /\ save = NoSave

\* the claim query of run_script_pipeline
FbClaim ==
    /\ fallback.pc = "start"
    /\ IF ScriptMatches = {}
       THEN /\ fallback' = [fallback EXCEPT !.pc = "exited"]
            /\ returncode' = 0
       ELSE /\ fallback' = [fallback EXCEPT !.pc = "calling",
                                            !.job = Latest(ScriptMatches)]
            /\ UNCHANGED returncode
    /\ UNCHANGED <<video_jobs, procs, orch, captions, clip, render, image, save>>

\* one turn of the loop of generate_with_fallback: the request to the next
\* model of the list and what comes of it
FbCall(out) ==
    /\ fallback.pc = "calling"
    /\ LET model == fallback.pos + 1
           made == Append(fallback.calls, [model |-> model, outcome |-> out])
       IN IF out.code = 200
          THEN fallback' = [fallback EXCEPT !.calls = made, !.pc = "answered",
                                            !.result = "response"]
          ELSE IF Transient(out)
          THEN fallback' = [fallback EXCEPT
                   !.calls = made, !.pos = model,
                   !.pc = IF model = fallback.n THEN "answered" ELSE "calling",
                   !.result = IF model = fallback.n THEN "SystemExit" ELSE ""]
          ELSE fallback' = [fallback EXCEPT !.calls = made, !.pc = "answered",
                                            !.result = "raised"]
    /\ UNCHANGED <<video_jobs, procs, orch, returncode, captions, clip, render,
                   image, save>>

\* what generate_with_fallback handed to generate_script_from_news, as an
\* answer of LlmReplies
Answer ==
    LET last == fallback.calls[Len(fallback.calls)].outcome
    IN CASE fallback.result = "SystemExit" -> [kind |-> "exhausted", prompts |-> 0]
         [] fallback.result = "raised" -> [kind |-> "error", prompts |-> 0]
         [] OTHER -> [kind |-> last.kind, prompts |-> last.prompts]

\* the rest of run_script_pipeline: the parse of the response, the commit of
\* the script, or the end of the run
FbFinish ==
    /\ fallback.pc = "answered"
    /\ fallback' = [fallback EXCEPT !.pc = "exited"]
    /\ LET res == ScriptResult(Answer)
       IN IF res = "data"
          THEN /\ video_jobs' = [video_jobs EXCEPT
                       ![fallback.job] = ScriptUpdate(@, Answer.prompts)]
               /\ returncode' = 0
          ELSE /\ UNCHANGED video_jobs
               /\ returncode' = IF res = "SystemExit" THEN 1 ELSE 0
    /\ UNCHANGED <<procs, orch, captions, clip, render, image, save>>

NextFallback ==
    \/ FbClaim
    \/ \E out \in CallOutcomes : FbCall(out)
    \/ FbFinish

SpecFallback == InitFallback /\ [][NextFallback]_vars

\* ------------------------------------------- save_news_to_db item by item
\* one run of save_news_to_db after fetch_india_positive_news has returned
\* news_items.  i: the item the for loop is at; adds: the urls of the jobs
\* added to the session, which does not autoflush; result: "" while the run
\* goes on, then "commit" or "rollback"
SaveStart(news_items) ==
    [pc |-> "loop", news_items |-> news_items, i |-> 1, adds |-> <<>>,
     result |-> ""]

InitSave ==
    /\ video_jobs \in {[j \in JobIds |-> IF j = 1 THEN row ELSE NoRow] :
                          row \in {NoRow, NewRow(1)}}
    /\ procs = EmptyBag
    /\ orch = OrchIdle
    /\ returncode = 0
    /\ marks = <<>>
    /\ srt = NotWritten
    /\ clip = NoClip
    /\ render = NoRender
    /\ image = NoImage
    /\ fallback = NoFallback
    /\ save \in {SaveStart(b) : b \in Batches}

\* one turn of the for loop: the exists query, which reads the committed
\* rows, and session.add for an item with a url that the query did not find
SaveLoop ==
    /\ save.pc = "loop" /\ save.i <= Len(save.news_items)
    /\ LET url == save.news_items[save.i]
           exists == UrlPresent(url)
       IN save' = [save EXCEPT
                      !.i = @ + 1,
                      !.adds = IF ~exists /\ url # 0 THEN Append(@, url) ELSE @]
    /\ UNCHANGED <<video_jobs, procs, orch, returncode, captions, clip, render,
                   image, fallback>>

\* a commit per item: every item that meets no conflict is inserted
SaveCommitEach(raised) ==
    /\ save.pc = "loop" /\ save.i > Len(save.news_items)
    /\ LET free == {a \in 1..Len(save.adds) :
                       /\ ~UrlPresent(save.adds[a])
                       /\ \A b \in 1..(a - 1) : save.adds[b] # save.adds[a]}
           taken == [a \in 1..Cardinality(free) |->
                        save.adds[CHOOSE k \in free :
                                     Cardinality({m \in free : m < k}) = a - 1]]
       IN IF raised
          THEN /\ save' = [save EXCEPT !.pc = "exited", !.result = "rollback"]
               /\ UNCHANGED video_jobs
          ELSE /\ Cardinality(Present) + Len(taken) <= MaxJobs
               /\ video_jobs' = Inserted(taken)
               /\ save' = [save EXCEPT
                              !.pc = "exited",
                              !.result = IF Len(taken) = Len(save.adds)
                                         THEN "commit" ELSE "rollback"]
    /\ returncode' = 0
    /\ UNCHANGED <<procs, orch, captions, clip, render, image, fallback>>

\* session.commit() after the loop: every INSERT of the session in one
\* transaction, or what the except branches do when it raises (IntegrityError
\* for a url that is taken, raised for any other failure): the rollback.
\* save_news_to_db returns normally either way.
SaveCommit(raised) ==
    /\ save.pc = "loop" /\ save.i > Len(save.news_items)
    /\ IF raised \/ IntegrityError(save.adds)
       THEN /\ save' = [save EXCEPT !.pc = "exited", !.result = "rollback"]
            /\ UNCHANGED video_jobs
       ELSE /\ Cardinality(Present) + Len(save.adds) <= MaxJobs
            /\ video_jobs' = Inserted(save.adds)
            /\ save' = [save EXCEPT !.pc = "exited", !.result = "commit"]
    /\ returncode' = 0
    /\ UNCHANGED <<procs, orch, captions, clip, render, image, fallback>>

\* a run of save_news_to_db beside manual requests
NextSave ==
    \/ SaveLoop
    \/ \E raised \in BOOLEAN : SaveCommit(raised)
    \/ \E r \in Running \cup Requested, url \in 1..MaxUrl : ApiCheck(r, url)
    \/ \E r \in Running : ApiCommit(r)

SpecSave == InitSave /\ [][NextSave]_vars

\* ------------------------------------------------------- specifications
\* the runs of the four scene tasks tried in the pipeline: all succeed
\* (k = 0), or the task of scene k-1 alone fails
SceneRuns == {[i \in 1..NumScenes |-> IF i = k THEN 1 ELSE 0] : k \in 0..NumScenes}

\* the news of the day tried in the pipeline: no story, a story without a
\* url, or one story that no row has yet (rows get the urls 1, 2, ... in the
\* order of their creation), as long as the table has room
Stories ==
    {[raised |-> "no", items |-> b] : b \in
        {<<>>, <<0>>} \cup (IF Cardinality(Present) < MaxJobs
                            THEN {<<Cardinality(Present) + 1>>} ELSE {})}

\* Stages started by hand at any time, in any number up to MaxProcs at once,
\* with every outcome of every external call; the machine stopped at any
\* point.  (What the orchestrator starts is among these runs.)
Next ==
    \/ \E r \in Running \cup Invoked, fetched \in Stories \cup FetchRaised :
            NewsFetch(r, fetched)
    \/ \E r \in Running : NewsCommit(r)
    \/ \E r \in Running \cup Invoked : ScriptClaim(r)
    \/ \E r \in Running, reply \in LlmReplies : ScriptFinish(r, reply)
    \/ \E r \in Running \cup Invoked : AudioClaim(r)
    \/ \E r \in Running, ok \in BOOLEAN : AudioFinish(r, ok)
    \/ \E r \in Running \cup Invoked : ImageClaim(r)
    \/ \E r \in Running, saved \in 0..MaxPrompts, raised \in BOOLEAN :
            ImageFinish(r, saved, raised)
    \/ \E r \in Running \cup Invoked : VideoClaim(r)
    \/ \E r \in Running, probe \in ExitCodes, rcs \in SceneRuns, rc \in ExitCodes :
            VideoFinish(r, probe, rcs, rc)
    \/ Crash

Spec == Init /\ [][Next]_vars

\* The stages of orchestrator runs in which every external call succeeds:
\* the fetch returns a list, the script has 4 prompts, polly and the image
\* API answer, every ffprobe/ffmpeg exits 0.
AllZero == [i \in 1..NumScenes |-> 0]

RunStep ==
    \/ \E r \in Running, fetched \in Fetched : NewsFetch(r, fetched)
    \/ \E r \in Running : NewsCommit(r)
    \/ \E r \in Running : ScriptClaim(r)
    \/ \E r \in Running : ScriptFinish(r, [kind |-> "json", prompts |-> NumScenes])
    \/ \E r \in Running : AudioClaim(r)
    \/ \E r \in Running : AudioFinish(r, TRUE)
    \/ \E r \in Running : ImageClaim(r)
    \/ \E r \in Running : ImageFinish(r, r.prompts, FALSE)
    \/ \E r \in Running : VideoClaim(r)
    \/ \E r \in Running : VideoFinish(r, 0, AllZero, 0)

OrchStep == OrchStart \/ OrchNewsDone \/ OrchScriptDone \/ OrchJoin \/ OrchVideoDone

\* One orchestrator run on an empty table.
NextRun ==
    \/ RunStep
    \/ orch.pc = "idle" /\ OrchStart
    \/ OrchNewsDone
    \/ OrchScriptDone
    \/ OrchJoin
    \/ OrchVideoDone

SpecRun == Init /\ [][NextRun]_vars

\* Orchestrator runs stopped at any point and started again: the
\* orchestrator is the only one to start stages.
NextRestart ==
    \/ RunStep
    \/ OrchStep
    \/ Crash

SpecRestart == Init /\ [][NextRestart]_vars

\* discovery runs and manual requests, side by side
NextIngest ==
    \/ \E r \in {q \in Running \cup Invoked : q.kind = "news"}, fetched \in Fetched \cup FetchRaised :
           NewsFetch(r, fetched)
    \/ \E r \in Running : NewsCommit(r)
    \/ \E r \in Running \cup Requested, url \in 1..MaxUrl : ApiCheck(r, url)
    \/ \E r \in Running : ApiCommit(r)

SpecIngest == Init /\ [][NextIngest]_vars

\* Orchestrator runs, one after the other, whose stages meet every outcome
\* of every external call; the orchestrator is the only one to start stages.
NextOrch ==
    \/ \E r \in Running, fetched \in Stories \cup FetchRaised : NewsFetch(r, fetched)
    \/ \E r \in Running : NewsCommit(r)
    \/ \E r \in Running : ScriptClaim(r)
    \/ \E r \in Running, reply \in LlmReplies : ScriptFinish(r, reply)
    \/ \E r \in Running : AudioClaim(r)
    \/ \E r \in Running, ok \in BOOLEAN : AudioFinish(r, ok)
    \/ \E r \in Running : ImageClaim(r)
    \/ \E r \in Running, saved \in 0..MaxPrompts, raised \in BOOLEAN :
            ImageFinish(r, saved, raised)
    \/ \E r \in Running : VideoClaim(r)
    \/ \E r \in Running, probe \in ExitCodes, rcs \in SceneRuns, rc \in ExitCodes :
            VideoFinish(r, probe, rcs, rc)
    \/ OrchStart
    \/ OrchNewsDone
    \/ OrchScriptDone
    \/ OrchJoin
    \/ OrchVideoDone

SpecOrch == Init /\ [][NextOrch]_vars

\* ------------------------------------------------------------- properties
\* the processes of a stage that hold row j (between claim query and commit)
Holders(kind, j) ==
    {r \in Running : r.kind = kind /\ r.pc = "claimed" /\ r.job = j}

\* how many processes of the stage hold row j in the bag B
Holding(kind, j, B) ==
    LET S == {r \in BagToSet(B) : r.kind = kind /\ r.pc = "claimed" /\ r.job = j}
    IN  BagCardinality([r \in S |-> B[r]])

\* C1: run_video_pipeline claims a row only if the row is 'voiced' with
\* image_status 'completed' when the claim query runs (so never a row that is
\* already 'completed'), and its claim query comes back empty only if no row
\* is 'voiced' with image_status 'completed'.
C1_RenderClaim ==
    [][/\ \A j \in JobIds :
            Holding("video", j, procs') > Holding("video", j, procs)
                => /\ video_jobs[j].status = "voiced"
                   /\ video_jobs[j].image_status = "completed"
       /\ \A r \in Running \cup Invoked :
            (VideoClaim(r) /\ \A j \in JobIds :
                    Holding("video", j, procs') = Holding("video", j, procs))
                => ~\E j \in Present :
                        /\ video_jobs[j].status = "voiced"
                        /\ video_jobs[j].image_status = "completed"]_vars

\* a render process holds a claimed row while another row is 'completed'
C1_Witness ==
    \E r \in Running, j \in Present :
        /\ r.kind = "video" /\ r.pc = "claimed"
        /\ j # r.job
        /\ video_jobs[j].status = "completed"

Rank(status) ==
    CASE status = "absent" -> 0
      [] status = "pending" -> 1
      [] status = "scripted" -> 2
      [] status = "voiced" -> 3
      [] status = "completed" -> 4

\* C2: for every interleaving of the stage processes, no commit replaces a
\* row's status by an earlier one of pending < scripted < voiced < completed.
C2_StatusForward ==
    [][\A j \in JobIds :
        Rank(video_jobs'[j].status) >= Rank(video_jobs[j].status)]_vars

\* C3: image_paths is NULL or a list of exactly 4 paths, image_status
\* 'completed' implies 4 paths, and an image run that produced fewer than 4
\* images changes no row.
C3_ImagePaths ==
    /\ [](\A j \in Present :
            /\ video_jobs[j].image_paths \in {NULL, 4}
            /\ video_jobs[j].image_status = "completed"
                    => video_jobs[j].image_paths = 4)
    /\ [][\A r \in Running, saved \in 0..3, raised \in BOOLEAN :
            ImageFinish(r, saved, raised) => video_jobs' = video_jobs]_vars

\* an image run has committed its 4 paths for a row that another image run,
\* which claimed it too, still holds
C3_Witness ==
    \E j \in Present :
        /\ video_jobs[j].image_status = "completed"
        /\ video_jobs[j].image_paths = 4
        /\ \E r \in Holders("image", j) : r.prompts = 4

\* C4: an orchestrator run in which every external call succeeded ends with
\* the job it scripted at status 'completed', for every interleaving of the
\* audio and the image service.
C4_RunCompletesJob ==
    (orch.pc = "ok" /\ orch.scripted # 0)
        => video_jobs[orch.scripted].status = "completed"

\* C5: no reachable (status, image_status) leaves a scripted job that no
\* stage can claim: a job that is not completed and that no process holds
\* satisfies the claim query of some stage.
C5_NoStrandedJob ==
    \A j \in Present :
        (/\ video_jobs[j].status # "completed"
         /\ \A r \in Running : ~(r.pc = "claimed" /\ r.job = j))
            => \/ video_jobs[j].status = "pending"
               \/ video_jobs[j].status = "scripted"
               \/ video_jobs[j].status = "voiced"
                    /\ video_jobs[j].image_status = "completed"

InFlight ==
    \E j \in Present :
        video_jobs[j].status # "completed" \/ video_jobs[j].image_status # "completed"

\* C6: the news stage of an orchestrator run inserts no job while a job with
\* status # 'completed' or image_status # 'completed' exists.
C6_Gatekeeper ==
    [][(/\ orch.pc = "news"
        /\ \E j \in JobIds : video_jobs[j].news_url = 0 /\ video_jobs'[j].news_url # 0)
            => ~InFlight]_vars

\* C7 (as claimed): no two processes of the same stage hold the same row.
C7_Exclusive ==
    \A kind \in {"audio", "image", "video"}, j \in JobIds : Holding(kind, j, procs) <= 1

\* C7 (amended): the commit of a stage makes its own claim query false for
\* the row it committed, so an instance whose claim query runs after that
\* commit does not get the row for it.
C7_CommitClosesClaim ==
    [][\A r \in Running :
        /\ AudioFinish(r, TRUE) => ~AudioFilter(video_jobs'[r.job])
        /\ ImageFinish(r, r.prompts, FALSE) => ~ImageFilter(video_jobs'[r.job])
        /\ VideoFinish(r, 0, AllZero, 0) => ~VideoFilter(video_jobs'[r.job])]_vars

\* two audio processes claimed the same row; one has committed, the other
\* still holds the row
C7_Witness ==
    \E j \in Present :
        /\ video_jobs[j].status = "voiced" /\ video_jobs[j].audio_path
        /\ Holders("audio", j) # {}

\* C8: a stage process that fails to finish its stage for the job it claimed
\* exits with a non-zero status.
C8_FailureExitsNonZero ==
    [][\A r \in Running :
        (\/ \E reply \in LlmReplies :
                ScriptResult(reply) # "data" /\ ScriptFinish(r, reply)
         \/ AudioFinish(r, FALSE)
         \/ \E saved \in 0..MaxPrompts, raised \in BOOLEAN :
                /\ raised \/ ~ImageComplete(saved, r.prompts)
                /\ ImageFinish(r, saved, raised)
         \/ \E probe \in ExitCodes, rcs \in SceneRuns, rc \in ExitCodes :
                /\ Rendered(probe, rcs, rc).ffmpeg # 0
                /\ VideoFinish(r, probe, rcs, rc))
            => returncode' # 0]_vars

\* C9: the render stage sets status 'completed' only if ffprobe, the four
\* scene ffmpeg runs and the final ffmpeg each exited 0; when one of them
\* fails the render process changes no row and exits non-zero.
C9_RenderCommit ==
    [][/\ \A r \in Running, probe \in ExitCodes, rcs \in SceneRuns, rc \in ExitCodes :
            VideoFinish(r, probe, rcs, rc)
                => IF probe = 0 /\ rcs = AllZero /\ rc = 0
                   THEN video_jobs'[r.job].status = "completed"
                   ELSE video_jobs' = video_jobs /\ returncode' # 0
       /\ \A j \in Present :
            (video_jobs'[j].status = "completed" /\ video_jobs[j].status # "completed")
                => \E r \in Holders("video", j) : VideoFinish(r, 0, AllZero, 0)]_vars

\* the render has set a row 'completed' that another render process, which
\* claimed it too, still holds
C9_Witness ==
    \E j \in Present :
        /\ video_jobs[j].status = "completed"
        /\ Holders("video", j) # {}

\* the i-th mark of type 'word' of the input
NthWord(i) ==
    marks[CHOOSE k \in DOMAIN marks :
            /\ marks[k].type = "word"
            /\ Cardinality({m \in 1..k : marks[m].type = "word"}) = i]

\* C10: generate_srt writes exactly one cue per word mark, in input order,
\* numbered 1..N, with the word's value in upper case as its text (no cue
\* for an input without words).
C10_OneCuePerWord ==
    srt.written =>
        /\ Len(srt.cues) = Cardinality({k \in DOMAIN marks : marks[k].type = "word"})
        /\ \A i \in DOMAIN srt.cues :
                /\ srt.cues[i].number = i
                /\ Len(srt.cues[i].text) = Len(NthWord(i).value)
                /\ \A c \in DOMAIN srt.cues[i].text :
                        srt.cues[i].text[c] =
                            IF NthWord(i).value[c] = "a" THEN "A"
                            ELSE NthWord(i).value[c]

\* a file with two cues, written for two word marks with different values
C10_Witness ==
    /\ srt.written /\ Len(srt.cues) = 2 /\ Len(marks) = 2
    /\ srt.cues[1].text = <<"A">> /\ marks[1].value = <<"a">>
    /\ srt.cues[2].text = <<"'">>

\* the file written for an input without word marks has no cue
C10_WitnessEmpty == srt.written /\ marks = <<>> /\ srt.cues = <<>>

\* ---- the times of a caption file, as a reader of the file takes them
IsDigit(c) == \E d \in 1..10 : DigitChars[d] = c

DigitValue(c) == (CHOOSE d \in 1..10 : DigitChars[d] = c) - 1

\* HH:MM:SS,mmm
IsSrtTime(s) ==
    /\ Len(s) = 12
    /\ s[3] = ":" /\ s[6] = ":" /\ s[9] = ","
    /\ \A i \in {1, 2, 4, 5, 7, 8, 10, 11, 12} : IsDigit(s[i])

\* the milliseconds a time of that form stands for; NULL for any other text
SrtMillis(s) ==
    IF IsSrtTime(s)
    THEN LET n(i) == DigitValue(s[i])
         IN  (((10 * n(1) + n(2)) * 60 + 10 * n(4) + n(5)) * 60 + 10 * n(7) + n(8)) * 1000
                + 100 * n(10) + 10 * n(11) + n(12)
    ELSE NULL

NumWords == Cardinality({k \in DOMAIN marks : marks[k].type = "word"})

NonDecreasing == \A i, k \in 1..NumWords : i <= k => NthWord(i).time <= NthWord(k).time

\* C11: for word marks with non-decreasing offsets, the start written for
\* cue i is the offset of word i, the end written for cue i is the start
\* written for cue i+1, and the end written for the last cue is its start
\* plus 400 ms.
C11_CueTimes ==
    (srt.written /\ NonDecreasing) =>
        \A i \in DOMAIN srt.cues :
            /\ SrtMillis(srt.cues[i].start) = NthWord(i).time
            /\ i < Len(srt.cues) => srt.cues[i].end = srt.cues[i + 1].start
            /\ i = Len(srt.cues)
                => /\ SrtMillis(srt.cues[i].end) # NULL
                   /\ SrtMillis(srt.cues[i].end) = SrtMillis(srt.cues[i].start) + 400

\* C12: every start and end time written has the form HH:MM:SS,mmm, and its
\* three millisecond digits are those of the offset it is written for.
C12_TimeFormat ==
    srt.written =>
        \A i \in DOMAIN srt.cues :
            LET end_ms == IF i < Len(srt.cues) THEN NthWord(i + 1).time
                          ELSE NthWord(i).time + 400
            IN  /\ IsSrtTime(srt.cues[i].start)
                /\ IsSrtTime(srt.cues[i].end)
                /\ SrtMillis(srt.cues[i].start) % 1000 = NthWord(i).time % 1000
                /\ SrtMillis(srt.cues[i].end) % 1000 = end_ms % 1000

\* ---- the frames of a clip
\* a/b rounded to the nearest integer, a tie to the even one
Round(a, b) ==
    LET q == a \div b
        r == a % b
    IN IF 2 * r < b THEN q
       ELSE IF 2 * r > b THEN q + 1
       ELSE IF q % 2 = 0 THEN q ELSE q + 1

\* C13: for every scene duration d the frame count that create_ken_burns
\* computes equals round(d * 24)
C13_FrameCount ==
    clip.pc = "zoompan" =>
        clip.frames = Round(clip.num * FramesPerSecond, clip.den)

InRange(z) == ZoomFloor <= z /\ z <= ZoomCap

\* C14: the zoom factor of every frame of a clip lies in [1.0, 1.5]; from one
\* frame to the next it never decreases for an even scene index and never
\* increases for an odd one
C14_Zoom ==
    [][(clip.pc = "zoompan" /\ clip'.n = clip.n + 1) =>
          /\ InRange(clip'.zoom)
          /\ (clip.n >= 1 /\ clip.idx % 2 = 0) => clip'.zoom >= clip.zoom
          /\ (clip.n >= 1 /\ clip.idx % 2 = 1) => clip'.zoom <= clip.zoom]_vars

\* a clip of an even scene whose zoom has reached the cap and stays there
C14_Witness ==
    /\ clip.pc = "zoompan"
    /\ clip.idx % 2 = 0
    /\ clip.zoom = ZoomCap
    /\ clip.n * ZoomStep > ZoomCap - ZoomFloor + ZoomStep

\* ---- the render, thread by thread
AllDone ==
    /\ Len(render.tasks) = NumScenes
    /\ \A f \in DOMAIN render.tasks : render.tasks[f].state = "done"

RECURSIVE TotalFrames(_)
TotalFrames(n) == IF n = 0 THEN 0 ELSE render.tasks[n].frames + TotalFrames(n - 1)

\* the narration's length in milliseconds, as ffprobe reported it
Narration == render.T

\* C15: for every narration duration T each of the four scenes gets the
\* duration T/4, and the total length of the four clips (the sum of their
\* frame counts at 24 fps) differs from T by at most one frame interval
C15_TotalLength ==
    AllDone =>
        /\ \A f \in DOMAIN render.tasks :
               4 * 1000 * render.tasks[f].dur.num = Narration * render.tasks[f].dur.den
        /\ 1000 * TotalFrames(NumScenes) - FramesPerSecond * Narration <= 1000
        /\ FramesPerSecond * Narration - 1000 * TotalFrames(NumScenes) <= 1000

FannedIn == render.pc \in {"concat", "final"} \/ render.final # NULL

\* C19: for every completion order of the four scene tasks, after the fan-in
\* clips holds at position i the clip of scene i, and the manifest lists the
\* clips in the order scene 0, 1, 2, 3
C19_SceneOrder ==
    /\ FannedIn => \A i \in 0..(NumScenes - 1) : render.clips[i + 1] = i
    /\ (render.pc = "final" \/ render.final # NULL) =>
           render.manifest = [i \in 1..NumScenes |-> i - 1]

\* the manifest is written although the last scene was finished and handed
\* out first and the first scene last
C19_Witness ==
    /\ render.pc = "final"
    /\ render.collected[1] = NumScenes
    /\ render.collected[NumScenes] = 1

\* C20: the four scene tasks are dispatched without waiting for one another;
\* the manifest is written and the final assembly started only after all four
\* have returned successfully; if any task fails the final assembly is never
\* started
C20_FanOutFanIn ==
    /\ render.pc = "submit" => ENABLED RenderSubmit
    /\ (FannedIn \/ render.manifest # <<>>) => AllDone
    /\ (\E f \in DOMAIN render.tasks : render.tasks[f].state = "raised") =>
           /\ render.manifest = <<>>
           /\ render.final = NULL
           /\ render.pc \in {"submit", "collect", "shutdown", "exited"}

\* all four tasks are running at once
C20_Witness ==
    /\ render.pc = "collect"
    /\ \A f \in 1..NumScenes : render.tasks[f].state = "running"

\* a render that failed on a scene after the other three were finished
C20_WitnessFailed ==
    /\ render.pc = "exited"
    /\ returncode = 1
    /\ Len(render.tasks) = NumScenes
    /\ Cardinality({f \in 1..NumScenes : render.tasks[f].state = "done"}) = NumScenes - 1

\* ---- ingestion
UrlsOf(jobs) == {jobs[j].news_url : j \in {k \in JobIds : jobs[k].news_url # 0}}

RowsOf(jobs) == {k \in JobIds : jobs[k].news_url # 0}

\* C16: no two jobs ever share a news_url; an insertion attempt with a url
\* that is already present, manual or discovered, alone or racing another, is
\* rejected, leaves the existing row as it was and creates no new row
C16_UniqueUrl ==
    [][/\ \A i, k \in RowsOf(video_jobs') :
              video_jobs'[i].news_url = video_jobs'[k].news_url => i = k
       /\ \A j \in RowsOf(video_jobs) : video_jobs'[j] = video_jobs[j]
       /\ \A k \in RowsOf(video_jobs') \ RowsOf(video_jobs) :
              video_jobs'[k].news_url \notin UrlsOf(video_jobs)
       /\ \A r \in Running :
              /\ (r.kind = "api" /\ r.pc = "adding" /\ ApiCommit(r)
                    /\ r.adds[1] \in UrlsOf(video_jobs))
                 => (returncode' = 500 /\ video_jobs' = video_jobs)
              /\ (r.kind = "news" /\ r.pc = "adding" /\ NewsCommit(r)
                    /\ \E a \in 1..Len(r.adds) : r.adds[a] \in UrlsOf(video_jobs))
                 => video_jobs' = video_jobs
       /\ \A r \in Running \cup Requested, url \in UrlsOf(video_jobs) :
              ApiCheck(r, url) => (returncode' = 400 /\ video_jobs' = video_jobs)
      ]_vars

\* a manual request lost the race for its url: it passed the duplicate check,
\* another attempt committed the url, and its own commit was answered 500
C16_Witness ==
    /\ returncode = 500
    /\ Cardinality(Present) >= 1

\* ---- the orchestrator's order
\* the orchestrator starts a stage of this kind in the step
StartedNow(kind) ==
    CopiesIn(Started(kind, "orch"), procs') > CopiesIn(Started(kind, "orch"), procs)

\* the stage processes of the bag B that have not ended
Live(B) == {r \in BagToSet(B) : r.pc # "exited"}

NumLive(B) == BagCardinality([r \in Live(B) |-> CopiesIn(r, B)])

OnlyPair(B) ==
    NumLive(B) >= 2 =>
        /\ NumLive(B) = 2
        /\ {r.kind : r \in Live(B)} = {"audio", "image"}

\* C17: the orchestrator starts script_service only after news_service exited
\* 0, the audio/image pair only after script_service exited 0 and
\* video_service only after both of the pair exited 0; audio and image are
\* the only stages to run at the same time; after a non-zero exit no later
\* stage is started and the orchestrator exits non-zero
C17_Order ==
    [][/\ StartedNow("script") => \E r \in Waited("news") : r.rc = 0
       /\ (StartedNow("audio") \/ StartedNow("image")) =>
              /\ StartedNow("audio") /\ StartedNow("image")
              /\ \E r \in Waited("script") : r.rc = 0
       /\ StartedNow("video") =>
              \E a \in Waited("audio"), i \in Waited("image") : a.rc = 0 /\ i.rc = 0
       /\ StartedNow("news") => Running = {}
       /\ OnlyPair(procs')
       /\ (\E r \in Running : r.pc = "exited" /\ r.rc # 0) =>
              /\ \A kind \in Stages : ~StartedNow(kind)
              /\ orch' # orch => orch'.pc = "failed"
      ]_vars

\* image_service has ended with a non-zero exit status while audio_service
\* is still at work
C17_Witness ==
    /\ orch.pc = "fork"
    /\ \E i \in Waited("image") : i.rc # 0
    /\ \E a \in Running : a.kind = "audio" /\ a.pc = "claimed"

\* video_service at work in an orchestrator run
C17_WitnessVideo ==
    /\ orch.pc = "video"
    /\ \E r \in Running : r.kind = "video" /\ r.pc = "claimed"

\* ---- stage and assets
Consistent(row) ==
    /\ row.status \in {"scripted", "voiced", "completed"} => row.ai_script = NumScenes
    /\ row.status \in {"voiced", "completed"} => row.audio_path
    /\ row.status = "completed" => row.image_status = "completed"

Assets(row) == <<row.status, row.ai_script, row.audio_path, row.image_status>>

\* C18: in every persisted state the recorded stage implies the recorded
\* assets: scripted, voiced or completed implies a script with exactly 4
\* visual prompts, voiced or completed implies an audio_path, completed
\* implies image_status completed; a failed script, audio or render attempt
\* leaves status and these fields as they were
C18_StageImpliesAssets ==
    [][/\ \A j \in JobIds : video_jobs'[j].news_url # 0 => Consistent(video_jobs'[j])
       /\ (\E j \in JobIds : Assets(video_jobs'[j]) # Assets(video_jobs[j])) =>
            \A r \in Running :
               /\ \A reply \in LlmReplies :
                      ScriptResult(reply) # "data" => ~ScriptFinish(r, reply)
               /\ ~AudioFinish(r, FALSE)
               /\ \A probe \in ExitCodes, rcs \in SceneRuns, rc \in ExitCodes :
                      Rendered(probe, rcs, rc).ffmpeg # 0 => ~VideoFinish(r, probe, rcs, rc)
      ]_vars

\* one job is completed with all its assets, and another was left voiced,
\* with its images, by a stage that exited with status 1
C18_Witness ==
    /\ \E j \in Present : video_jobs[j].status = "completed"
    /\ \E k \in Present : /\ video_jobs[k].status = "voiced"
                          /\ video_jobs[k].image_status = "completed"
    /\ returncode = 1

\* ---- what a failed stage leaves behind
\* the render has ended after a scene task or the final assembly failed
RenderFailed ==
    /\ render.pc = "exited"
    /\ \/ \E f \in DOMAIN render.tasks : render.tasks[f].state = "raised"
       \/ render.final \notin {NULL, 0}

\* the image stage has ended without an image for every prompt
ImageFailed ==
    /\ image.pc = "exited"
    /\ image.job # 0
    /\ image.saved < image.prompts

C21_RenderPart == RenderFailed => render.temp.clips = {}

\* C21: when a stage fails after some of its sibling units produced output
\* (an image generation failing after earlier images were saved, a scene
\* animation or the final assembly failing after other clips were rendered),
\* the outputs of the completed siblings are removed before the process ends
C21_SiblingOutputsRemoved ==
    /\ ImageFailed => \A k \in 1..NumScenes : image.files[k] = NULL
    /\ C21_RenderPart

\* a failed render that had rendered clips
C21_RenderWitness ==
    /\ RenderFailed
    /\ \E f \in DOMAIN render.tasks : render.tasks[f].state = "done"

\* C22: in every render attempt on a claimed job the scratch directory is
\* emptied after the claim and before any scene clip is written, and it no
\* longer exists when the render process ends, whatever the outcome
C22_ScratchCleared ==
    /\ render.pc \notin {"none", "start", "exited"} =>
          /\ render.temp.exists
          /\ \A k \in render.temp.clips :
                \E f \in DOMAIN render.tasks :
                    render.tasks[f].idx = k /\ render.tasks[f].state = "done"
          /\ render.temp.concat => render.pc = "final"
    /\ render.pc = "exited" => render.temp = Absent

\* a render over a scratch directory that it had filled ended at a failing
\* final assembly
C22_Witness ==
    /\ render.pc = "exited"
    /\ render.final = 1
    /\ AllDone
    /\ render.manifest # <<>>

\* ---- the model waterfall
Calls == fallback.calls

\* C23: generate_with_fallback calls the models of the waterfall in list
\* order, each at most once, and always ends: it returns the first successful
\* response, goes on to the next model only after a 429 or 503, raises any
\* other error at once, and ends the run with SystemExit when every model
\* failed with 429 or 503
C23_Waterfall ==
    /\ Len(Calls) <= fallback.n
    /\ \A k \in DOMAIN Calls : Calls[k].model = k
    /\ \A k \in DOMAIN Calls :
          k < Len(Calls) => (Calls[k].outcome.kind = "APIError"
                                /\ Calls[k].outcome.code \in {429, 503})
    /\ fallback.pc = "calling" => Len(Calls) < fallback.n
    /\ fallback.result = "response" <=>
          (Calls # <<>> /\ Calls[Len(Calls)].outcome.code = 200)
    /\ fallback.result = "raised" <=>
          (Calls # <<>> /\ Calls[Len(Calls)].outcome.code \notin {200, 429, 503})
    /\ fallback.result = "SystemExit" <=>
          (/\ Len(Calls) = fallback.n
           /\ Calls[Len(Calls)].outcome.code \in {429, 503})
    /\ (Calls # <<>> /\ Calls[Len(Calls)].outcome.code \notin {429, 503}) =>
          fallback.pc # "calling"

\* the last model of the longer list answered after every model before it
\* was out of quota or overloaded
C23_Witness ==
    /\ fallback.result = "response"
    /\ Len(Calls) = 4
    /\ Calls[1].outcome.code = 429
    /\ Calls[2].outcome.code = 503

\* every model was out of quota or overloaded
C23_WitnessExhausted == fallback.result = "SystemExit"

Malformed(reply) == ~(reply.kind = "json" /\ reply.prompts = NumScenes)

\* C24: when the script generator's response is not valid JSON or does not
\* hold exactly 4 visual prompts, the script stage makes no further request
\* for that input, the run ends with a non-zero exit status, and the claimed
\* job keeps status pending and its ai_script
C24_MalformedAborts ==
    [][(fallback.result = "response" /\ Malformed(Answer)) =>
          /\ fallback'.calls = fallback.calls
          /\ video_jobs' = video_jobs
          /\ video_jobs[fallback.job].status = "pending"
          /\ fallback'.pc = "exited" => returncode' # 0
      ]_vars

\* ---- the rows a stage touches
StageKinds == {"script", "audio", "image", "video"}

\* the rows whose persisted fields the step changes
Changed == {j \in JobIds : video_jobs'[j] # video_jobs[j]}

\* the stage processes that end in the step
Leaving == {r \in Running : r.kind \in StageKinds /\ CopiesIn(r, procs') < CopiesIn(r, procs)}

\* C25: every invocation of a stage service changes the persisted fields of
\* at most one job, the one its claim query returned, and leaves every other
\* job unchanged, on success and on failure; no stage ever deletes a job
C25_OneJobPerRun ==
    [][/\ \A j \in Present : video_jobs'[j].news_url = video_jobs[j].news_url
       /\ \A j \in Present \cap Changed :
             \E r \in Leaving : r.pc = "claimed" /\ r.job = j
       /\ Cardinality(Present \cap Changed) <= 1
       /\ \A r \in Leaving : Changed \subseteq {r.job}
      ]_vars

\* a stage has taken one job to completed while another job is still pending
C25_Witness ==
    \E j, k \in Present :
        /\ video_jobs[j].status = "completed"
        /\ video_jobs[k].status = "pending"

\* ---- generate_image
Met == image.call.responses

C26_WitnessNone ==
    /\ image.pc = "returned"
    /\ image.call.result = "None"
    /\ Len(Met) = MaxAttempts

\* ---- audio and image on one job
BothDone(row) ==
    /\ row.status = "voiced"
    /\ row.audio_path
    /\ row.image_status = "completed"
    /\ row.image_paths = NumScenes

\* C27: when the audio stage and the image stage process the same job at the
\* same time and both succeed, then for either commit order the job ends with
\* status voiced, audio_path set, image_status completed and 4 image_paths:
\* the audio commit changes only status and audio_path, the image commit only
\* image_status and image_paths
C27_DisjointCommits ==
    [][\A r \in Leaving : \A j \in Changed :
          /\ r.kind = "audio" =>
                video_jobs'[j] = [video_jobs[j] EXCEPT !.status = "voiced",
                                                       !.audio_path = TRUE]
          /\ r.kind = "image" =>
                video_jobs'[j] = [video_jobs[j] EXCEPT !.image_status = "completed",
                                                       !.image_paths = NumScenes]
          /\ (r.kind = "audio" /\ video_jobs[j].image_status = "completed") =>
                BothDone(video_jobs'[j])
          /\ (r.kind = "image" /\ video_jobs[j].status = "voiced") =>
                BothDone(video_jobs'[j])
      ]_vars

\* both commits are in and the video stage has not run yet
C27_Witness ==
    /\ orch.pc = "fork"
    /\ \E j \in Present : BothDone(video_jobs[j])
    /\ Waited("audio") # {} /\ Waited("image") # {}

\* the audio commit is in while the image stage is still at work on the job
C27_WitnessAudioFirst ==
    \E r \in Running : /\ r.kind = "image" /\ r.pc = "claimed"
                       /\ video_jobs[r.job].status = "voiced"

\* the image commit is in while the audio stage is still at work on the job
C27_WitnessImageFirst ==
    \E r \in Running : /\ r.kind = "audio" /\ r.pc = "claimed"
                       /\ video_jobs[r.job].image_status = "completed"

\* ---- the batch of save_news_to_db
Conflict(adds) ==
    \/ \E a, b \in 1..Len(adds) : a # b /\ adds[a] = adds[b]
    \/ \E a \in 1..Len(adds) : adds[a] \in UrlsOf(video_jobs)

\* C28: save_news_to_db inserts a batch with a single commit: items whose url
\* is empty or already present are skipped, and either every remaining item
\* is inserted as a pending job or, when the commit raises (two items share a
\* url, a concurrent insert took a url), none is and the existing rows stay
\* as they were
C28_AtomicBatch ==
    [][(save.pc = "loop" /\ save' # save) =>
          LET new == RowsOf(video_jobs') \ RowsOf(video_jobs)
              item == save.news_items[save.i]
          IN IF save'.pc = "loop"
             THEN /\ video_jobs' = video_jobs
                  /\ (item = 0 \/ item \in UrlsOf(video_jobs)) =>
                        save'.adds = save.adds
                  /\ (item # 0 /\ item \notin UrlsOf(video_jobs)) =>
                        save'.adds = save.adds \o <<item>>
             ELSE /\ \A j \in RowsOf(video_jobs) : video_jobs'[j] = video_jobs[j]
                  /\ save'.result \in {"commit", "rollback"}
                  /\ Conflict(save.adds) => save'.result = "rollback"
                  /\ save'.result = "rollback" => new = {}
                  /\ save'.result = "commit" =>
                        /\ Cardinality(new) = Len(save.adds)
                        /\ \A a \in 1..Len(save.adds) :
                              \E k \in new : video_jobs'[k] = NewRow(save.adds[a])
                        /\ \A i \in 1..Len(save.news_items) :
                              save.news_items[i] # 0 =>
                                 save.news_items[i] \in UrlsOf(video_jobs')
      ]_vars

\* a batch of two stories was rolled back as a whole because a manual request
\* inserted the url of one of them between the loop and the commit
C28_Witness ==
    /\ save.pc = "exited" /\ save.result = "rollback"
    /\ Len(save.adds) = 2
    /\ save.adds[1] # save.adds[2]
    /\ \E a \in 1..2 : save.adds[a] \in UrlsOf(video_jobs)
    /\ \E a \in 1..2 : save.adds[a] \notin UrlsOf(video_jobs)

\* a batch whose two stories share a url was rolled back
C28_WitnessShared ==
    /\ save.pc = "exited" /\ save.result = "rollback"
    /\ Len(save.adds) = 2 /\ save.adds[1] = save.adds[2]
    /\ save.adds[1] \notin UrlsOf(video_jobs)

\* a batch with an item that was skipped and a story that was not has been
\* committed
C28_WitnessCommit ==
    /\ save.pc = "exited" /\ save.result = "commit"
    /\ Len(save.adds) < Len(save.news_items)
    /\ Len(save.adds) > 0

====
